---- MODULE Spec2Model ----
(***************************************************************************)
(* The spending time-series engine of sg-kauf3: the paginated record fetch *)
(* and aggregation of app/composables/usePurchaseChart.ts and the axis     *)
(* tick planning of app/components/home/HomeChart.client.vue.              *)
(*                                                                         *)
(* A Date is modelled by the number of its LOCAL calendar day, counted     *)
(* from 1970-01-01 (day 0, a Thursday).  Every use the engine makes of a   *)
(* Date goes through startOfDay, startOfWeek, startOfMonth, format         *)
(* 'yyyy-MM-dd', getDate or an each*OfInterval function, all of which read *)
(* the local calendar day only.  The one place where the time zone shows   *)
(* is new Date("yyyy-MM-dd"), which parses to UTC midnight: parseDate.     *)
(***************************************************************************)
EXTENDS Integers, Sequences, FiniteSets, TLC

VARIABLES
    tz,          \* offset of the browser's time zone from UTC, in hours
    period,      \* props.period
    range,       \* props.range: [start |-> day, end |-> day]
    purchases,   \* the record list handed to aggregatePurchases
    aggregated,  \* what the last call of aggregatePurchases did: [called, threw, points],
                 \* and the number of calls made so far
    chartData,   \* usePurchaseChart: chartData.value
    total,       \* usePurchaseChart: total.value
    isLoading,   \* usePurchaseChart: isLoading.value
    error,       \* usePurchaseChart: error.value
    calls,       \* the fetchChartData invocations, in the order they started
    lastDone,    \* history: the invocation that returned most recently
    tickPlan,    \* the value of the computed tickConfig, once evaluated
    picker,      \* the preset buttons: today's date, activePreset,
                 \* isLoadingAllTime, the date-range lookup and what was emitted
    auth         \* the axios plugin: isLoggingOut, the logout calls in flight
                 \* and the error response the interceptor saw last

envVars == <<tz, period, range>>
aggVars == <<purchases, aggregated>>
fetchVars == <<chartData, total, isLoading, error, calls, lastDone>>
vars == <<tz, period, range, purchases, aggregated,
          chartData, total, isLoading, error, calls, lastDone, tickPlan,
          picker, auth>>

-----------------------------------------------------------------------------
(* Calendar arithmetic of the JavaScript Date object and date-fns.         *)

\* year, month (1..12) and day of month of a day number (proleptic Gregorian)
civilFromDays(z) ==
    LET s   == z + 719468
        era == s \div 146097
        doe == s - era * 146097
        yoe == (doe - doe \div 1460 + doe \div 36524 - doe \div 146096) \div 365
        doy == doe - (365 * yoe + yoe \div 4 - yoe \div 100)
        mp  == (5 * doy + 2) \div 153
        d   == doy - (153 * mp + 2) \div 5 + 1
        m   == IF mp < 10 THEN mp + 3 ELSE mp - 9
    IN  [y |-> yoe + era * 400 + (IF m <= 2 THEN 1 ELSE 0), m |-> m, d |-> d]

\* the day number of a calendar date
daysFromCivil(y, m, d) ==
    LET yy  == IF m <= 2 THEN y - 1 ELSE y
        era == yy \div 400
        yoe == yy - era * 400
        doy == (153 * (IF m > 2 THEN m - 3 ELSE m + 9) + 2) \div 5 + d - 1
        doe == yoe * 365 + yoe \div 4 - yoe \div 100 + doy
    IN  era * 146097 + doe - 719468

\* Date.prototype.getDate: day of the month, 1..31
getDate(date) == civilFromDays(date).d

\* Date.prototype.getDay: 0 = Sunday .. 6 = Saturday
getDay(date) == (date + 4) % 7

\* date-fns startOfDay: the local midnight of the date's day
startOfDay(date) == date

\* date-fns startOfWeek(date, { weekStartsOn })
startOfWeek(date, weekStartsOn) ==
    LET day  == getDay(date)
        diff == (IF day < weekStartsOn THEN 7 ELSE 0) + day - weekStartsOn
    IN  date - diff

\* date-fns startOfMonth
startOfMonth(date) == date - (getDate(date) - 1)

\* the first day of the month after the date's month
startOfNextMonth(date) ==
    LET c == civilFromDays(date)
    IN  IF c.m = 12 THEN daysFromCivil(c.y + 1, 1, 1)
                    ELSE daysFromCivil(c.y, c.m + 1, 1)

\* date-fns endOfMonth (its calendar day)
endOfMonth(date) == startOfNextMonth(date) - 1

\* months from the date's month to the month of `to`, both counted
monthsSpanned(from, to) ==
    LET a == civilFromDays(from)
        b == civilFromDays(to)
    IN  (b.y - a.y) * 12 + (b.m - a.m) + 1

\* the first day of the month k months after the date's month
addMonthStart(date, k) ==
    LET c == civilFromDays(date)
        n == (c.m - 1) + k
    IN  daysFromCivil(c.y + n \div 12, (n % 12) + 1, 1)

\* date-fns eachDayOfInterval({ start, end })
eachDayOfInterval(start, end) ==
    [i \in 1..(end - start + 1) |-> start + (i - 1)]

\* date-fns eachWeekOfInterval({ start, end }) with no options: the weeks
\* start on the default locale's first day, Sunday (weekStartsOn 0)
eachWeekOfInterval(start, end) ==
    LET startDateWeek == startOfWeek(start, 0)
        endDateWeek   == startOfWeek(end, 0)
    IN  [i \in 1..((endDateWeek - startDateWeek) \div 7 + 1) |->
            startDateWeek + 7 * (i - 1)]

\* date-fns eachMonthOfInterval({ start, end })
eachMonthOfInterval(start, end) ==
    [i \in 1..monthsSpanned(start, end) |-> addMonthStart(start, i - 1)]

-----------------------------------------------------------------------------
(* Records and aggregation: usePurchaseChart.ts                            *)

Periods == {"daily", "weekly", "monthly"}

TZOffsets == {-5, 1}   \* New York (west of UTC) and Berlin (east of UTC)

\* a purchaseDate as the backend sends it: a "yyyy-MM-dd" date (kind "date",
\* day = its calendar day), null or the empty string (kind "null"), or a
\* string new Date() turns into an Invalid Date (kind "unparseable")
dateString(day) == [kind |-> "date", day |-> day]
NullDate == [kind |-> "null", day |-> 0]
BadDate  == [kind |-> "unparseable", day |-> 0]

\* new Date(purchaseDate): a "yyyy-MM-dd" string is UTC midnight of that
\* date, which west of UTC still is the evening of the day before; any
\* other string gives an Invalid Date
parseDate(purchaseDate, zone) ==
    IF purchaseDate.kind = "date"
    THEN [valid |-> TRUE,
          day |-> IF zone < 0 THEN purchaseDate.day - 1 ELSE purchaseDate.day]
    ELSE [valid |-> FALSE, day |-> 0]

createDateBuckets(p, r) ==
    CASE p = "daily"   -> eachDayOfInterval(r.start, r.end)
      [] p = "weekly"  -> eachWeekOfInterval(r.start, r.end)
      [] p = "monthly" -> eachMonthOfInterval(r.start, r.end)

\* normalizers[period](date).toISOString() of a valid Date; the ISO string
\* of a local midnight is one-to-one with its calendar day, which stands
\* for it
getBucketKey(date, p) ==
    CASE p = "daily"   -> startOfDay(date)
      [] p = "weekly"  -> startOfWeek(date, 1)
      [] p = "monthly" -> startOfMonth(date)

\* a bucketMap kept between calls: a bucket starts from the amount the
\* earlier call left in it
carriedBucketMap(buckets, p) ==
    [k \in {getBucketKey(buckets[i], p) : i \in 1..Len(buckets)} |->
        LET earlier == {i \in 1..Len(aggregated.points) :
                          getBucketKey(aggregated.points[i].date, p) = k}
        IN  IF earlier = {} THEN 0
            ELSE aggregated.points[CHOOSE i \in earlier : TRUE].amount]

\* bucketMap after `buckets.forEach(date => bucketMap.set(key, 0))`
initBucketMap(buckets, p) ==
    [k \in {getBucketKey(buckets[i], p) : i \in 1..Len(buckets)} |-> 0]

\* the body of purchases.forEach for one purchase.  acc.threw records that
\* getBucketKey threw: toISOString() of an Invalid Date is a RangeError
addPurchase(acc, purchase, p, zone) ==
    IF acc.threw \/ purchase.purchaseDate.kind = "null" THEN acc
    ELSE LET date == parseDate(purchase.purchaseDate, zone)
         IN  IF ~date.valid THEN [acc EXCEPT !.threw = TRUE]
             ELSE LET key == getBucketKey(date.day, p)
                  IN  IF key \in DOMAIN acc.map
                      THEN [acc EXCEPT !.map[key] = @ + purchase.totalAmount]
                      ELSE acc

RECURSIVE foldPurchases(_, _, _, _, _)
foldPurchases(acc, list, i, p, zone) ==
    IF i > Len(list) THEN acc
    ELSE foldPurchases(addPurchase(acc, list[i], p, zone), list, i + 1, p, zone)

\* aggregatePurchases(purchases, buckets, period): [threw |-> FALSE, points
\* |-> the ChartDataPoint sequence], or threw |-> TRUE when it throws
aggregatePurchases(list, buckets, p, zone) ==
    LET acc == foldPurchases([threw |-> FALSE, map |-> initBucketMap(buckets, p)],
                             list, 1, p, zone)
    IN  IF acc.threw THEN [threw |-> TRUE, points |-> <<>>]
        ELSE [threw |-> FALSE,
              points |-> [i \in 1..Len(buckets) |->
                 [date |-> buckets[i],
                  amount |-> acc.map[getBucketKey(buckets[i], p)]]]]

\* no aggregation has been made yet
NoAggregation == [called |-> FALSE, threw |-> FALSE, points |-> <<>>, calls |-> 0]

RECURSIVE sumAmounts(_, _)
\* aggregated.reduce((sum, point) => sum + point.amount, 0), from index i on
sumAmounts(points, i) ==
    IF i > Len(points) THEN 0 ELSE points[i].amount + sumAmounts(points, i + 1)

-----------------------------------------------------------------------------
(* Axis ticks: HomeChart.client.vue.  Indices are positions in the data    *)
(* array, counted from 0 as in the code: index i is data[i + 1] here.      *)

TickResolutions == {"day", "week", "month", "year"}

\* date-fns differenceInCalendarDays(later, earlier)
differenceInCalendarDays(later, earlier) == later - earlier

\* date-fns addDays
addDays(date, n) == date + n

\* date-fns startOfYear
startOfYear(date) == daysFromCivil(civilFromDays(date).y, 1, 1)

\* date-fns addYears, of a January 1st
addYears(date, n) == daysFromCivil(civilFromDays(date).y + n, 1, 1)

generateDailyTicks(start, end) ==
    LET days == differenceInCalendarDays(end, start) + 1
    IN  [i \in 1..days |-> addDays(start, i - 1)]

generateWeeklyTicksWithoutEnd(start, end) ==
    \* a fault: the range's end is not appended
    [i \in 1..((end - start) \div 7 + 1) |-> addDays(start, 7 * (i - 1))]

generateWeeklyTicks(start, end) ==
    LET n     == (end - start) \div 7 + 1     \* turns of the while loop
        ticks == [i \in 1..n |-> addDays(start, 7 * (i - 1))]
    IN  IF ticks[n] # end THEN Append(ticks, end) ELSE ticks

generateYearlyTicksFromStart(start, end) ==
    \* a fault: the pointer starts at `start`, not at startOfYear(start)
    LET n == IF daysFromCivil(civilFromDays(end).y, civilFromDays(start).m,
                              civilFromDays(start).d) <= end
             THEN civilFromDays(end).y - civilFromDays(start).y + 1
             ELSE civilFromDays(end).y - civilFromDays(start).y
    IN  [i \in 1..n |-> daysFromCivil(civilFromDays(start).y + i - 1,
                                      civilFromDays(start).m, civilFromDays(start).d)]

generateYearlyTicks(start, end) ==
    LET first == startOfYear(start)
        n     == civilFromDays(end).y - civilFromDays(first).y + 1
    IN  [i \in 1..n |-> addYears(first, i - 1)]

\* generateTickConfig with the week threshold one day late
resolutionForLateWeek(totalDays) ==
    IF totalDays <= 8 THEN "day"
    ELSE IF totalDays <= 41 THEN "week"
    ELSE IF totalDays <= 400 THEN "month"
    ELSE "year"

\* the resolution generateTickConfig chooses for totalDays
resolutionFor(totalDays) ==
    IF totalDays <= 8 THEN "day"
    ELSE IF totalDays <= 40 THEN "week"
    ELSE IF totalDays <= 400 THEN "month"
    ELSE "year"

generateTickConfig(r) ==
    LET start      == startOfDay(r.start)
        end        == startOfDay(r.end)
        totalDays  == differenceInCalendarDays(end, start) + 1
        resolution == resolutionFor(totalDays)
    IN  [resolution |-> resolution,
         dates |-> CASE resolution = "day"   -> generateDailyTicks(start, end)
                     [] resolution = "week"  -> generateWeeklyTicks(start, end)
                     [] resolution = "month" ->
                          LET months == eachMonthOfInterval(start, end)
                          IN  [i \in 1..Len(months) |-> startOfMonth(months[i])]
                     [] resolution = "year"  -> generateYearlyTicks(start, end)]

normalizeDateKey(date) == startOfDay(date)

\* a fault: the month format carries the day of the month
formatTickLabelDayInMonth(date, resolution) ==
    LET c == civilFromDays(date)
    IN  CASE resolution \in {"day", "week", "month"} -> [d |-> c.d, MMM |-> c.m, yyyy |-> 0]
          [] OTHER -> [d |-> 0, MMM |-> c.m, yyyy |-> c.y]

\* format(date, 'd MMM' | 'MMM' | 'MMM yyyy'): the parts of the text, 0 for
\* a part the pattern leaves out
formatTickLabel(date, resolution) ==
    LET c == civilFromDays(date)
    IN  CASE resolution \in {"day", "week"} -> [d |-> c.d, MMM |-> c.m, yyyy |-> 0]
          [] resolution = "month"           -> [d |-> 0, MMM |-> c.m, yyyy |-> 0]
          [] OTHER                          -> [d |-> 0, MMM |-> c.m, yyyy |-> c.y]

isFullMonthRange(r) ==
    LET start == startOfDay(r.start)
        end   == startOfDay(r.end)
        isFirstOfMonth == getDate(start) = 1
        expectedEnd    == endOfMonth(start)
        isLastOfMonth  == end = startOfDay(expectedEnd)
    IN  isFirstOfMonth /\ isLastOfMonth

\* Math.round of the quotient a / b of two non-negative integers, b > 0
\* (halves round up)
roundDiv(a, b) == (2 * a + b) \div (2 * b)

Min(a, b) == IF a <= b THEN a ELSE b
Max(a, b) == IF a >= b THEN a ELSE b

\* a fault: the count without its upper limit of 7
fallbackCountUncapped(dataLength) ==
    Min(dataLength, Max(3, roundDiv(dataLength, 10) + 2))

\* Math.min(dataLength, Math.max(3, Math.min(7, Math.round(dataLength / 10) + 2)))
fallbackCount(dataLength) ==
    Min(dataLength, Max(3, Min(7, roundDiv(dataLength, 10) + 2)))

\* the fallback step taken as dataLength / (count - 1)
fallbackIndexPastEnd(i, dataLength, count) == roundDiv(i * dataLength, count - 1)

\* Math.round(i * step) with step = (dataLength - 1) / (count - 1)
\* (in exact arithmetic; the double product stays within 0..dataLength - 1)
fallbackIndex(i, dataLength, count) == roundDiv(i * (dataLength - 1), count - 1)

\* a fault: a day with no record is given the last index instead of undefined
indexOfDateOrLast(data, key) ==
    LET hits == {i \in 1..Len(data) : normalizeDateKey(data[i].date) = key}
    IN  IF hits = {} THEN Len(data) - 1
        ELSE (CHOOSE i \in hits : \A j \in hits : j <= i) - 1

\* dateIndexMap.get(key): the index of the last record of that day, or -1
\* for undefined
indexOfDate(data, key) ==
    LET hits == {i \in 1..Len(data) : normalizeDateKey(data[i].date) = key}
    IN  IF hits = {} THEN -1 ELSE (CHOOSE i \in hits : \A j \in hits : j <= i) - 1

RECURSIVE sortBetween(_, _, _)
\* the members of S in lo..hi, ascending
sortBetween(S, lo, hi) ==
    IF lo > hi THEN <<>>
    ELSE IF lo = hi THEN (IF lo \in S THEN <<lo>> ELSE <<>>)
    ELSE LET mid == (lo + hi) \div 2
         IN  sortBetween(S, lo, mid) \o sortBetween(S, mid + 1, hi)

\* Array.from(set).sort((a, b) => a - b)
sortAscending(S) ==
    IF S = {} THEN <<>>
    ELSE sortBetween(S, CHOOSE x \in S : \A y \in S : x <= y,
                        CHOOSE x \in S : \A y \in S : y <= x)

\* lines 146-155: the candidate dates that fall on a day of the data
mappedTicks(config, data) ==
    LET index == [k \in 1..Len(config.dates) |->
                    indexOfDate(data, normalizeDateKey(config.dates[k]))]
        hit   == {k \in 1..Len(config.dates) : index[k] >= 0}
    IN  [uniqueTicks |-> {index[k] : k \in hit},
         labels |->
           [i \in {index[k] : k \in hit} |->
              \* labels.set overwrites: the last date that maps to i
              LET last == CHOOSE k \in hit :
                            index[k] = i /\ \A k2 \in hit : index[k2] = i => k2 <= k
              IN  formatTickLabel(config.dates[last], config.resolution)]]

\* the full-month branch without the label of the last day
fullMonthTicksNoLast(data) ==
    LET dataLength == Len(data)
        labelled == {i \in 0..(dataLength - 1) :
                        i = 0 \/ getDate(data[i + 1].date) % 5 = 0}
    IN  [uniqueTicks |-> 0..(dataLength - 1),
         labels |-> [i \in labelled |-> formatTickLabel(data[i + 1].date, "day")]]

\* lines 160-184: every index is a gridline; the first, the last and the
\* days of the month divisible by 5 are labelled
fullMonthTicks(data) ==
    LET dataLength == Len(data)
        labelled == {i \in 0..(dataLength - 1) :
                        \/ i = 0
                        \/ getDate(data[i + 1].date) % 5 = 0
                        \/ i = dataLength - 1}
    IN  [uniqueTicks |-> 0..(dataLength - 1),
         labels |-> [i \in labelled |-> formatTickLabel(data[i + 1].date, "day")]]

\* a fault: the fallback adds its ticks without labels
fallbackTicksUnlabelled(mapped, config, data) ==
    LET dataLength == Len(data)
        count == fallbackCount(dataLength)
        added == {fallbackIndex(i, dataLength, count) : i \in 0..(count - 1)}
                    \ mapped.uniqueTicks
    IN  IF count > Cardinality(mapped.uniqueTicks)
        THEN [uniqueTicks |-> mapped.uniqueTicks \cup added, labels |-> mapped.labels]
        ELSE mapped

\* a fault: the fallback drops the ticks found before it
fallbackTicksAlone(mapped, config, data) ==
    LET dataLength == Len(data)
        count == fallbackCount(dataLength)
        desiredResolution ==
            IF config.resolution = "week" THEN "day" ELSE config.resolution
        spread == {fallbackIndex(i, dataLength, count) : i \in 0..(count - 1)}
    IN  [uniqueTicks |-> spread,
         labels |-> [i \in spread |-> formatTickLabel(data[i + 1].date, desiredResolution)]]

\* lines 185-206: evenly spread ticks added to at most two mapped ones
fallbackTicks(mapped, config, data) ==
    LET dataLength == Len(data)
        count == fallbackCount(dataLength)
        desiredResolution ==
            IF config.resolution = "week" THEN "day" ELSE config.resolution
        added == {fallbackIndex(i, dataLength, count) : i \in 0..(count - 1)}
                    \ mapped.uniqueTicks
    IN  IF count > Cardinality(mapped.uniqueTicks)
        THEN [uniqueTicks |-> mapped.uniqueTicks \cup added,
              labels |->
                [i \in DOMAIN mapped.labels \cup {j \in added : j + 1 \in 1..dataLength} |->
                   IF i \in added
                   THEN formatTickLabel(data[i + 1].date, desiredResolution)
                   ELSE mapped.labels[i]]]
        ELSE mapped

\* the computed tickConfig for props.range = r and chartData = data
tickConfig(r, data) ==
    LET config == generateTickConfig(r)
        mapped == mappedTicks(config, data)
        dataLength == Len(data)
        chosen ==
            IF dataLength >= 2 /\ isFullMonthRange(r) THEN fullMonthTicks(data)
            ELSE IF dataLength > 2 /\ Cardinality(mapped.uniqueTicks) <= 2
                 THEN fallbackTicks(mapped, config, data)
                 ELSE mapped
    IN  [computed |-> TRUE,
         resolution |-> config.resolution,
         ticks |-> sortAscending(chosen.uniqueTicks),
         labels |-> chosen.labels,
         majorTickIndices |-> DOMAIN chosen.labels]

\* tickConfig has not been evaluated
NoPlan ==
    [computed |-> FALSE, resolution |-> "day", ticks |-> <<>>,
     labels |-> <<>>, majorTickIndices |-> {}]

-----------------------------------------------------------------------------
(* The preset buttons: HomeChart.client.vue, periodPresets and selectPreset *)

PresetKeys == {"1w", "1m", "3m", "6m", "1y", "all"}

\* date-fns endOfWeek, endOfYear (the day they fall on)
endOfWeek(date, weekStartsOn) == startOfWeek(date, weekStartsOn) + 6
endOfYear(date) == daysFromCivil(civilFromDays(date).y, 12, 31)

\* startOfMonth(sub(date, { months: k }))
startOfMonthBefore(date, k) == addMonthStart(date, 0 - k)

\* a fault: the 'Month' preset ends today instead of at the end of the month
presetRangeMonthToDate(key, now) ==
    CASE key = "1w" -> [start |-> startOfWeek(now, 1), end |-> endOfWeek(now, 1)]
      [] key = "1m" -> [start |-> startOfMonth(now), end |-> now]
      [] key = "3m" -> [start |-> startOfMonthBefore(now, 2), end |-> endOfMonth(now)]
      [] key = "6m" -> [start |-> startOfMonthBefore(now, 5), end |-> endOfMonth(now)]
      [] key = "1y" -> [start |-> startOfYear(now), end |-> endOfYear(now)]

\* getRange of the presets that need no request, with new Date() = now
presetRange(key, now) ==
    CASE key = "1w" -> [start |-> startOfWeek(now, 1), end |-> endOfWeek(now, 1)]
      [] key = "1m" -> [start |-> startOfMonth(now), end |-> endOfMonth(now)]
      [] key = "3m" -> [start |-> startOfMonthBefore(now, 2), end |-> endOfMonth(now)]
      [] key = "6m" -> [start |-> startOfMonthBefore(now, 5), end |-> endOfMonth(now)]
      [] key = "1y" -> [start |-> startOfYear(now), end |-> endOfYear(now)]

\* the outcome of GET /purchases/date-range: rejected, or a body whose data
\* is missing (hasData FALSE) or { earliestDate, latestDate }
dateRangeReply(rejected, hasData, earliest, latest) ==
    [rejected |-> rejected, hasData |-> hasData,
     earliestDate |-> earliest, latestDate |-> latest]

\* a fault: fetchPurchaseDateRange without its catch block
fetchPurchaseDateRangeRethrows(reply) ==
    IF reply.rejected
    THEN [threw |-> TRUE, isNull |-> TRUE, earliestDate |-> NullDate, latestDate |-> NullDate]
    ELSE [threw |-> FALSE, isNull |-> ~reply.hasData,
          earliestDate |-> reply.earliestDate, latestDate |-> reply.latestDate]

\* fetchPurchaseDateRange: response.data.data, or null when the request fails
fetchPurchaseDateRange(reply) ==
    IF reply.rejected \/ ~reply.hasData
    THEN [threw |-> FALSE, isNull |-> TRUE, earliestDate |-> NullDate, latestDate |-> NullDate]
    ELSE [threw |-> FALSE, isNull |-> FALSE,
          earliestDate |-> reply.earliestDate, latestDate |-> reply.latestDate]

\* a string is truthy unless it is null or empty
truthy(dateText) == dateText.kind # "null"

\* the 'all' preset's getRange after the await: [threw, range]
allTimeRange(reply, now, zone) ==
    LET dateRange == fetchPurchaseDateRange(reply)
    IN  IF dateRange.threw
        THEN [threw |-> TRUE, range |-> [start |-> 0, end |-> 0]]
        ELSE IF ~dateRange.isNull /\ truthy(dateRange.earliestDate)
                                 /\ truthy(dateRange.latestDate)
        THEN [threw |-> FALSE,
              range |-> [start |-> parseDate(dateRange.earliestDate, zone).day,
                         end   |-> parseDate(dateRange.latestDate, zone).day]]
        ELSE [threw |-> FALSE,
              range |-> [start |-> startOfYear(now), end |-> endOfYear(now)]]

\* the buttons before any click: activePreset = ref('1m')
idlePicker(now) ==
    [today |-> now, activePreset |-> "1m", isLoadingAllTime |-> FALSE,
     lookup |-> "none", emitted |-> <<>>, escaped |-> FALSE, lastReply |-> <<>>]

NoPicker == idlePicker(0)

-----------------------------------------------------------------------------
(* The axios response interceptor: plugins/axiosPlugin.ts                  *)

\* error.request?.responseURL: undefined, or a URL given by its path segments
NoUrl == [defined |-> FALSE, path |-> <<>>]
urlOf(path) == [defined |-> TRUE, path |-> path]

\* url?.endsWith(suffix), for a suffix made of whole path segments;
\* undefined when the URL is
endsWith(url, suffix) ==
    /\ url.defined
    /\ Len(url.path) >= Len(suffix)
    /\ SubSeq(url.path, Len(url.path) - Len(suffix) + 1, Len(url.path)) = suffix

\* error.response?.status: 0 stands for undefined (no response)
AuthStatuses == {401, 419}

\* a fault: the interceptor without its isLoggingOut guard
startsLogoutUnguarded(status, url, isLoggingOut) ==
    /\ status \in AuthStatuses
    /\ ~endsWith(url, <<"api", "user">>)
    /\ ~endsWith(url, <<"api", "logout">>)

\* the condition of line 25
startsLogout(status, url, isLoggingOut) ==
    /\ status \in AuthStatuses
    /\ ~endsWith(url, <<"api", "user">>)
    /\ ~endsWith(url, <<"api", "logout">>)
    /\ ~isLoggingOut

NoErrorSeen == [status |-> 0, url |-> NoUrl]

\* the plugin has been set up: `let isLoggingOut = false`
idleAuth ==
    [isLoggingOut |-> FALSE, inFlight |-> 0, userLogouts |-> 0,
     seen |-> 0, started |-> 0, suppressed |-> 0, lastError |-> NoErrorSeen]

\* the interceptor's error handler runs for a response with `status` from
\* `url`: inFlight counts the logout() calls it started that have not
\* settled; seen, started and suppressed are history
handleError(a, status, url) ==
    LET authError == /\ status \in AuthStatuses
                     /\ ~endsWith(url, <<"api", "user">>)
                     /\ ~endsWith(url, <<"api", "logout">>)
    IN  IF startsLogout(status, url, a.isLoggingOut)
        THEN [a EXCEPT !.isLoggingOut = TRUE,
                       !.inFlight = @ + 1,
                       !.started = @ + 1,
                       !.seen = @ + 1,
                       !.lastError = [status |-> status, url |-> url]]
        ELSE [a EXCEPT !.seen = @ + 1,
                       !.suppressed = IF authError THEN @ + 1 ELSE @,
                       !.lastError = [status |-> status, url |-> url]]

-----------------------------------------------------------------------------
(* fetchChartData: usePurchaseChart.ts                                     *)

NoError == "null"
LoadFailure == "Unable to load purchase data for chart."

\* a fetchChartData invocation suspended at `await axios.get(...)`:
\* requested, served and reported are history (the pages asked for so far,
\* the bodies of the responses received so far, the meta of the first one)
NoMeta == [present |-> FALSE, lastPage |-> 0]

\* a fault: the first two pages are requested at once
newCallEager(p, r) ==
    [pc |-> "awaiting", period |-> p, range |-> r,
     currentPage |-> 1, lastPage |-> 1, allPurchases |-> <<>>,
     requested |-> <<1, 2>>, served |-> <<>>, reported |-> NoMeta]

newCall(p, r) ==
    [pc |-> "awaiting", period |-> p, range |-> r,
     currentPage |-> 1, lastPage |-> 1, allPurchases |-> <<>>,
     requested |-> <<1>>, served |-> <<>>, reported |-> NoMeta]

\* an invocation that has returned: its frame is gone
returnedCall(f) ==
    [pc |-> "returned", period |-> f.period, range |-> f.range,
     currentPage |-> 0, lastPage |-> 0, allPurchases |-> <<>>,
     requested |-> <<>>, served |-> <<>>, reported |-> NoMeta]

NoneDone ==
    [id |-> 0, outcome |-> "none", aggregationCalled |-> FALSE,
     period |-> "daily", range |-> [start |-> 0, end |-> 0],
     lastPage |-> 0, requested |-> <<>>, served |-> <<>>, reported |-> NoMeta,
     handed |-> <<>>]

\* the state of the composable right after usePurchaseChart()
idleFetch ==
    /\ chartData = <<>>
    /\ total = 0
    /\ isLoading = FALSE
    /\ error = NoError
    /\ calls = <<>>
    /\ lastDone = NoneDone

\* a fault: lastPage is read from the meta of every page
readLastPageOfEveryPage(f, meta) ==
    IF meta.present
    THEN (IF meta.lastPage = 0 THEN 1 ELSE meta.lastPage)
    ELSE f.lastPage

\* `lastPage = response.data.meta.lastPage || 1` on the first page only
readLastPage(f, meta) ==
    IF f.currentPage = 1 /\ meta.present
    THEN (IF meta.lastPage = 0 THEN 1 ELSE meta.lastPage)
    ELSE f.lastPage

\* lines 79-86: the frame after a response with `body` and `meta` arrived
afterResponse(f, body, meta) ==
    [f EXCEPT !.allPurchases = f.allPurchases \o body,
              !.lastPage = readLastPage(f, meta),
              !.currentPage = f.currentPage + 1,
              !.served = Append(f.served, body),
              !.reported = IF f.currentPage = 1 THEN meta ELSE f.reported]

\* a fault: the loop stops one page early
loopStopsEarly(f) == f.currentPage < f.lastPage

\* `while (currentPage <= lastPage)`
loopContinues(f) == f.currentPage <= f.lastPage

\* a fault: the catch block leaves the chart of an earlier fetch in place
catchKeepsChart ==
    /\ error' = LoadFailure
    /\ isLoading' = FALSE
    /\ UNCHANGED <<chartData, total>>

\* the catch block and the finally block
catchAndFinally ==
    /\ error' = LoadFailure
    /\ chartData' = <<>>
    /\ total' = 0
    /\ isLoading' = FALSE

\* a fault-free alternative the code does not have: a superseded invocation
\* discards its result
publishIfLatest(c, points) ==
    /\ isLoading' = FALSE
    /\ UNCHANGED error
    /\ IF c = Len(calls)
       THEN chartData' = points /\ total' = sumAmounts(points, 1)
       ELSE UNCHANGED <<chartData, total>>

\* a fault: the new series is published with the total of the old one
publishStaleTotal(c, points) ==
    /\ chartData' = points
    /\ isLoading' = FALSE
    /\ UNCHANGED <<total, error>>

\* lines 95-96 and the finally block: the invocation c publishes its result
publish(c, points) ==
    /\ chartData' = points
    /\ total' = sumAmounts(points, 1)
    /\ isLoading' = FALSE
    /\ UNCHANGED error

\* what an invocation leaves in the history when it returns
doneRecord(c, f, outcome, called) ==
    [id |-> c, outcome |-> outcome, aggregationCalled |-> called,
     period |-> f.period, range |-> f.range,
     lastPage |-> f.lastPage, requested |-> f.requested,
     served |-> f.served, reported |-> f.reported,
     handed |-> IF called THEN f.allPurchases ELSE <<>>]

\* a response for the page invocation c waits for arrives
Respond(c, body, meta) ==
    /\ c \in 1..Len(calls)
    /\ calls[c].pc = "awaiting"
    /\ LET g == afterResponse(calls[c], body, meta)
       IN  IF loopContinues(g)
           THEN \* the next axios.get is issued
                /\ calls' = [calls EXCEPT ![c] =
                                [g EXCEPT !.requested = Append(g.requested, g.currentPage)]]
                /\ UNCHANGED <<chartData, total, isLoading, error, lastDone>>
           ELSE LET buckets == createDateBuckets(g.period, g.range)
                    res == aggregatePurchases(g.allPurchases, buckets, g.period, tz)
                IN  /\ IF res.threw THEN catchAndFinally ELSE publish(c, res.points)
                    /\ calls' = [calls EXCEPT ![c] = returnedCall(g)]
                    /\ lastDone' =
                         doneRecord(c, g, IF res.threw THEN "failure" ELSE "success", TRUE)
    /\ UNCHANGED <<envVars, aggVars, tickPlan, picker, auth>>

\* the request invocation c waits for is rejected (network error, 4xx, 5xx)
RequestFails(c) ==
    /\ c \in 1..Len(calls)
    /\ calls[c].pc = "awaiting"
    /\ catchAndFinally
    /\ calls' = [calls EXCEPT ![c] = returnedCall(calls[c])]
    /\ lastDone' = doneRecord(c, calls[c], "failure", FALSE)
    /\ UNCHANGED <<envVars, aggVars, tickPlan, picker, auth>>

MaxCalls == 2       \* fetchChartData invocations started in one behaviour
MaxLastPage == 2    \* largest meta.lastPage the backend reports

\* a fault: the chart is emptied when a fetch starts
StartFetchClearsChart(p, r) ==
    /\ Len(calls) < MaxCalls
    /\ period' = p
    /\ range' = r
    /\ isLoading' = TRUE
    /\ error' = NoError
    /\ chartData' = <<>>
    /\ total' = 0
    /\ calls' = Append(calls, newCall(p, r))
    /\ UNCHANGED <<tz, aggVars, lastDone, tickPlan, picker, auth>>

\* the parent changes props.period / props.range (a new Range object, even
\* with the same dates, counts as a change); the watcher calls
\* fetchChartData(props.period, props.range), which runs up to its first
\* await
StartFetch(p, r) ==
    /\ Len(calls) < MaxCalls
    /\ period' = p
    /\ range' = r
    /\ isLoading' = TRUE
    /\ error' = NoError
    /\ calls' = Append(calls, newCall(p, r))
    /\ UNCHANGED <<tz, aggVars, chartData, total, lastDone, tickPlan, picker, auth>>

\* the ranges the chart is asked for: Mon 2024-02-26 .. Wed 2024-02-28 and
\* Thu 2024-02-29 .. Sat 2024-03-02
FetchRanges ==
    {[start |-> daysFromCivil(2024, 2, 26), end |-> daysFromCivil(2024, 2, 28)],
     [start |-> daysFromCivil(2024, 2, 29), end |-> daysFromCivil(2024, 3, 2)]}

purchase(d, a) == [purchaseDate |-> d, totalAmount |-> a]

\* response.data.data of one page for a request with dateFrom / dateTo of r:
\* no record; a record without a date, one dated on the last day of the
\* range and one dated a year before it; a record with an unparseable date
PageBodies(r) ==
    { <<>>,
      <<purchase(NullDate, 100), purchase(dateString(r.end), 250),
        purchase(dateString(r.start - 365), 100)>>,
      <<purchase(BadDate, 100)>> }

\* response.data.meta: absent, or { lastPage }
Metas ==
    {NoMeta}
    \cup {[present |-> TRUE, lastPage |-> n] : n \in 0..MaxLastPage}

\* the component is set up: the watcher is `immediate`, so the first
\* fetchChartData is already waiting for page 1
InitFetch ==
    /\ tz \in TZOffsets
    /\ period \in Periods
    /\ range \in FetchRanges
    /\ purchases = <<>>
    /\ aggregated = NoAggregation
    /\ chartData = <<>>
    /\ total = 0
    /\ isLoading = TRUE
    /\ error = NoError
    /\ calls = <<newCall(period, range)>>
    /\ lastDone = NoneDone
    /\ tickPlan = NoPlan
    /\ picker = NoPicker
    /\ auth = idleAuth

NextFetch ==
    \/ \E p \in Periods, r \in FetchRanges : StartFetch(p, r)
    \/ \E c \in 1..Len(calls) : \E body \in PageBodies(calls[c].range), meta \in Metas :
          Respond(c, body, meta)
    \/ \E c \in 1..Len(calls) : RequestFails(c)

SpecFetch == InitFetch /\ [][NextFetch]_vars

\* response.data.meta with one more page than Metas, so that a later page
\* can report more or fewer pages than the first one did
SettlingMetas ==
    {NoMeta}
    \cup {[present |-> TRUE, lastPage |-> n] : n \in 0..(MaxLastPage + 1)}

\* response.data.data of one page: a record dated on the last day of the
\* range, or a record with an unparseable date
SettlingBodies(r) ==
    {<<purchase(dateString(r.end), 250)>>, <<purchase(BadDate, 100)>>}

\* the request invocation c waits for is settled: answered or rejected
Settles(c) ==
    /\ c \in 1..Len(calls)
    /\ \/ \E body \in SettlingBodies(calls[c].range), meta \in SettlingMetas :
             Respond(c, body, meta)
       \/ RequestFails(c)

\* the chart of one time zone, set up for the daily period and the first
\* range, with the first fetchChartData waiting for page 1
InitSettling ==
    /\ InitFetch
    /\ tz = 1
    /\ period = "daily"
    /\ range = [start |-> daysFromCivil(2024, 2, 26), end |-> daysFromCivil(2024, 2, 28)]

\* the props change to the weekly period or to the other range
NextSettling ==
    \/ \E r \in FetchRanges : StartFetch("weekly", r)
    \/ \E c \in 1..Len(calls) :
          \E body \in SettlingBodies(calls[c].range), meta \in SettlingMetas :
             Respond(c, body, meta)
    \/ \E c \in 1..Len(calls) : RequestFails(c)

\* every request is answered or rejected in the end: axios settles the promise
\* and the event loop runs the continuation of the invocation that awaits it
SpecFetchSettling ==
    InitSettling /\ [][NextSettling]_vars /\ \A c \in 1..MaxCalls : WF_vars(Settles(c))

-----------------------------------------------------------------------------
(* Claims about fetchChartData                                             *)

RECURSIVE Concat(_, _)
\* the concatenation of the sequences ss[i], ss[i+1], ...
Concat(ss, i) == IF i > Len(ss) THEN <<>> ELSE ss[i] \o Concat(ss, i + 1)

\* the pages 1, 2, ..., n in that order
PagesUpTo(n) == [i \in 1..n |-> i]

\* the step is the return of invocation c
Returns(c) ==
    /\ c \in 1..Len(calls)
    /\ calls[c].pc = "awaiting"
    /\ calls'[c].pc = "returned"

\* C3 (pagination exhaustiveness): an invocation asks for the pages 1, 2, ...
\* in that order, each once, one more than it has responses for, and never
\* beyond the N >= 1 that the page-1 response reported as meta.lastPage; when
\* it reaches the aggregation it has asked for exactly the pages 1..N, and
\* the list it hands over is the bodies of the N responses, concatenated in
\* page order.
C3_Pagination ==
    /\ \A c \in 1..Len(calls) :
          calls[c].pc = "awaiting" =>
             /\ calls[c].requested = PagesUpTo(calls[c].currentPage)
             /\ Len(calls[c].served) = calls[c].currentPage - 1
             /\ calls[c].allPurchases = Concat(calls[c].served, 1)
             /\ (calls[c].reported.present /\ calls[c].reported.lastPage >= 1)
                   => calls[c].currentPage <= calls[c].reported.lastPage
    /\ (lastDone.reported.present /\ lastDone.reported.lastPage >= 1) =>
          /\ \E k \in 1..lastDone.reported.lastPage : lastDone.requested = PagesUpTo(k)
          /\ lastDone.aggregationCalled =>
                /\ lastDone.requested = PagesUpTo(lastDone.reported.lastPage)
                /\ Len(lastDone.served) = lastDone.reported.lastPage
                /\ lastDone.handed = Concat(lastDone.served, 1)

\* an invocation returned after two or more pages, at least two of them
\* with records, and aggregated them
C3_Witness ==
    /\ lastDone.outcome = "success"
    /\ lastDone.reported.present
    /\ lastDone.reported.lastPage >= 2
    /\ Len(lastDone.requested) = lastDone.reported.lastPage
    /\ \E i, j \in 1..Len(lastDone.served) :
          i # j /\ lastDone.served[i] # <<>> /\ lastDone.served[j] # <<>>

\* C4 (failure aborts the fetch): the step in which a page request of an
\* invocation fails leaves chartData = [], total = 0, error = the load
\* failure message and isLoading = false, whatever was fetched before; the
\* invocation has returned without a further request and is never resumed.
C4_FailureAborts ==
    [][ /\ \A c \in 1..Len(calls) :
              (Returns(c) /\ ~lastDone'.aggregationCalled) =>
                 /\ chartData' = <<>>
                 /\ total' = 0
                 /\ error' = LoadFailure
                 /\ isLoading' = FALSE
                 /\ lastDone'.id = c
                 /\ lastDone'.outcome = "failure"
                 /\ lastDone'.requested = calls[c].requested
                 /\ lastDone'.handed = <<>>
        /\ \A c \in 1..Len(calls) :
              calls[c].pc = "returned" => calls'[c] = calls[c]
      ]_vars

\* a request for a later page failed after records had been fetched, while
\* a chart was on display
C4_Witness ==
    /\ lastDone.outcome = "failure"
    /\ ~lastDone.aggregationCalled
    /\ Len(lastDone.requested) >= 2
    /\ Concat(lastDone.served, 1) # <<>>
    /\ chartData = <<>>
    /\ total = 0
    /\ error = LoadFailure
    /\ ~isLoading

\* C5 (no cancellation, last writer wins): starting a fetch leaves every
\* earlier invocation as it is, and whichever invocation returns writes
\* chartData and total from its own period, range and records (or [] and
\* 0 when it failed), whether or not a later invocation exists.
C5_LastWriterWins ==
    [][ /\ Len(calls') > Len(calls) =>
              \A c \in 1..Len(calls) : calls'[c] = calls[c]
        /\ \A c \in 1..Len(calls) :
              Returns(c) =>
                 /\ lastDone'.id = c
                 /\ lastDone'.outcome = "success" =>
                       /\ chartData' =
                            aggregatePurchases(lastDone'.handed,
                                createDateBuckets(calls[c].period, calls[c].range),
                                calls[c].period, tz).points
                       /\ total' = sumAmounts(chartData', 1)
                 /\ lastDone'.outcome = "failure" =>
                       chartData' = <<>> /\ total' = 0
      ]_vars

\* both invocations have returned, the earlier one last: the chart shows the
\* result of a period and range that are no longer the current ones
C5_Witness ==
    /\ Len(calls) >= 2
    /\ \A c \in 1..Len(calls) : calls[c].pc = "returned"
    /\ lastDone.id < Len(calls)
    /\ lastDone.outcome = "success"
    /\ <<lastDone.period, lastDone.range>> # <<period, range>>
    /\ chartData =
         aggregatePurchases(lastDone.handed,
             createDateBuckets(lastDone.period, lastDone.range), lastDone.period, tz).points
    /\ \E i \in 1..Len(chartData) :
          chartData[i].date \notin
             {createDateBuckets(period, range)[j] :
                 j \in 1..Len(createDateBuckets(period, range))}

\* C9 (empty range): when the invocation that returned last handed zero
\* records to the aggregation, chartData holds one point per bucket of its
\* range, at least one, each with amount 0, total is 0 and error is null.
C9_ZeroRecords ==
    (lastDone.aggregationCalled /\ lastDone.handed = <<>>) =>
       /\ Len(chartData) = Len(createDateBuckets(lastDone.period, lastDone.range))
       /\ Len(chartData) >= 1
       /\ \A i \in 1..Len(chartData) : chartData[i].amount = 0
       /\ total = 0
       /\ error = NoError

\* the page-1 response of the invocation that returned last carried no meta,
\* or a meta whose lastPage is 0 (absent: `meta.lastPage || 1`)
lastDoneWithoutLastPage ==
    /\ lastDone.aggregationCalled
    /\ lastDone.outcome = "success"
    /\ (~lastDone.reported.present \/ lastDone.reported.lastPage = 0)

\* C11 (missing pagination metadata): when the page-1 response carries no
\* meta, or a lastPage that is absent or 0, the invocation has issued exactly
\* one request, the records of that page are what the chart aggregates, and
\* the fetch is complete with error = null.
C11_MissingMeta ==
    lastDoneWithoutLastPage =>
       /\ lastDone.lastPage = 1
       /\ lastDone.requested = <<1>>
       /\ Len(lastDone.served) = 1
       /\ lastDone.handed = lastDone.served[1]
       /\ chartData =
            aggregatePurchases(lastDone.served[1],
                createDateBuckets(lastDone.period, lastDone.range), lastDone.period, tz).points
       /\ ~calls[lastDone.id].pc = "awaiting"
       /\ error = NoError

\* the page requests of invocation c that have no response yet
outstanding(c) == Len(calls[c].requested) - Len(calls[c].served)

\* C18: within one fetchChartData call at most one page request is
\* outstanding.  A call that waits has exactly one request without a response;
\* the request for page k + 1 is issued in the step that receives the response
\* for page k, and a page beyond page 1 only once lastPage has been read from
\* the page-1 response, and never beyond it.
C18_OnePageInFlight ==
    /\ [](\A c \in 1..Len(calls) :
            /\ outstanding(c) <= 1
            /\ calls[c].pc = "awaiting" => outstanding(c) = 1)
    /\ [][\A c \in 1..Len(calls) :
            Len(calls'[c].requested) > Len(calls[c].requested) =>
               LET k == Len(calls[c].requested)
               IN  /\ calls[c].requested[k] = k
                   /\ Len(calls[c].served) = k - 1
                   /\ Len(calls'[c].served) = k
                   /\ calls'[c].requested = Append(calls[c].requested, k + 1)
                   /\ calls'[c].reported.present
                   /\ k + 1 <= calls'[c].reported.lastPage
                   /\ calls'[c].lastPage = calls'[c].reported.lastPage
       ]_vars

\* two overlapping invocations, one of them waiting for its second page
C18_Witness ==
    /\ Len(calls) = 2
    /\ calls[1].pc = "awaiting"
    /\ calls[2].pc = "awaiting"
    /\ calls[1].requested = <<1, 2>>
    /\ Len(calls[1].served) = 1
    /\ calls[2].requested = <<1>>

C25_TotalIsSum == total = sumAmounts(chartData, 1)

\* one invocation has failed and the other has then published a series with
\* a positive total, which stands beside the error of the failed one
C25_Witness ==
    /\ Len(calls) = 2
    /\ \A c \in 1..2 : calls[c].pc = "returned"
    /\ lastDone.outcome = "success"
    /\ error = LoadFailure
    /\ chartData # <<>>
    /\ total > 0
    /\ total = sumAmounts(chartData, 1)

\* C26: isLoading is true exactly when at least one invocation of
\* fetchChartData is waiting for a response, so the preset buttons, disabled
\* on isLoading, stay disabled until every invocation has returned.
C26_LoadingWhileInFlight ==
    isLoading <=> \E c \in 1..Len(calls) : calls[c].pc = "awaiting"

\* C27: in every state, an error on display goes with an empty chartData
\* and total = 0, and error is null when the invocation that returned last
\* succeeded.
C27_ErrorConsistency ==
    /\ error # NoError => (chartData = <<>> /\ total = 0)
    /\ lastDone.outcome = "success" => error = NoError

\* max(1, lastPage) for the lastPage the page-1 response reported
pagesToFetch(reported) ==
    IF reported.present /\ reported.lastPage >= 1 THEN reported.lastPage ELSE 1

\* C29: provided every request is settled in the end, every invocation of
\* fetchChartData returns.  It never asks for more pages than the lastPage of
\* the page-1 response (1 when that is absent or 0): the loop bound is fixed
\* by the first response and no later response changes it.  The step in
\* which an invocation returns, by success or by failure, sets isLoading to
\* false.
C29_Termination ==
    /\ \A c \in 1..MaxCalls :
          (c \in 1..Len(calls) /\ calls[c].pc = "awaiting")
             ~> (c \in 1..Len(calls) /\ calls[c].pc = "returned")
    /\ [](\A c \in 1..Len(calls) :
            (calls[c].pc = "awaiting" /\ Len(calls[c].served) >= 1) =>
               /\ calls[c].lastPage = pagesToFetch(calls[c].reported)
               /\ Len(calls[c].requested) <= calls[c].lastPage)
    /\ [][\A c \in 1..Len(calls) :
            /\ (calls[c].pc = "awaiting" /\ Len(calls[c].served) >= 1
                   /\ calls'[c].pc = "awaiting")
                  => calls'[c].lastPage = calls[c].lastPage
            /\ Returns(c) =>
                  /\ isLoading' = FALSE
                  /\ Len(lastDone'.requested) <= pagesToFetch(lastDone'.reported)
       ]_vars

\* every invocation has returned, the last one by a failure of its third
\* request, and isLoading is false
C29_Witness ==
    /\ Len(calls) >= 2
    /\ \A c \in 1..Len(calls) : calls[c].pc = "returned"
    /\ lastDone.outcome = "failure"
    /\ lastDone.reported.present
    /\ lastDone.reported.lastPage = 3
    /\ Len(lastDone.requested) = 3
    /\ ~isLoading

-----------------------------------------------------------------------------
(* The aggregation on its own: createDateBuckets and aggregatePurchases    *)
(* applied to a range, a period and a record list drawn from bounded sets. *)

MaxAggDays == 8     \* longest range, in days, the aggregation is applied to
MaxRecords == 2     \* longest record list handed to the aggregation
MaxAggCalls == 2    \* calls made on the same inputs

\* range starts: Mon 2024-02-26, Thu 2024-02-29 (leap day), Sun 2024-03-03
AggStarts ==
    {daysFromCivil(2024, 2, 26), daysFromCivil(2024, 2, 29), daysFromCivil(2024, 3, 3)}

AggRanges ==
    {[start |-> s, end |-> s + n - 1] : s \in AggStarts, n \in 1..MaxAggDays}

Amounts == {100, 250}   \* totalAmount, in cents

\* the purchases a response may carry for range r: dated on the day before
\* the range, its first, middle and last day, the day after it, or with a
\* null or an unparseable purchaseDate
PurchasesFor(r) ==
    {[purchaseDate |-> d, totalAmount |-> a] :
        d \in {dateString(x) : x \in {r.start - 1, r.start, (r.start + r.end) \div 2,
                                       r.end, r.end + 1}}
              \cup {NullDate, BadDate},
        a \in Amounts}

SeqsUpTo(S, n) == UNION {[1..k -> S] : k \in 0..n}

InitAgg ==
    /\ tz \in TZOffsets
    /\ period \in Periods
    /\ range \in AggRanges
    /\ purchases \in SeqsUpTo(PurchasesFor(range), MaxRecords)
    /\ aggregated = NoAggregation
    /\ idleFetch
    /\ tickPlan = NoPlan
    /\ picker = NoPicker
    /\ auth = idleAuth

\* const buckets = createDateBuckets(period, range)
\* const aggregated = aggregatePurchases(allPurchases, buckets, period)
AggregateCall ==
    /\ aggregated.calls < MaxAggCalls
    /\ LET buckets == createDateBuckets(period, range)
           res == aggregatePurchases(purchases, buckets, period, tz)
       IN  aggregated' = [called |-> TRUE, threw |-> res.threw, points |-> res.points,
                          calls |-> aggregated.calls + 1]
    /\ UNCHANGED <<envVars, purchases, fetchVars, tickPlan, picker, auth>>

NextAgg == AggregateCall

SpecAgg == InitAgg /\ [][NextAgg]_vars

-----------------------------------------------------------------------------
(* Claims about the aggregation                                            *)

\* a purchaseDate that is a date inside [r.start, r.end]
InsideRange(purchaseDate, r) ==
    /\ purchaseDate.kind = "date"
    /\ r.start <= purchaseDate.day
    /\ purchaseDate.day <= r.end

RECURSIVE sumInsideRange(_, _, _)
\* the sum of totalAmount over the records of list[i..] dated inside r
sumInsideRange(list, r, i) ==
    IF i > Len(list) THEN 0
    ELSE (IF InsideRange(list[i].purchaseDate, r) THEN list[i].totalAmount ELSE 0)
         + sumInsideRange(list, r, i + 1)

\* C1 (sum conservation), stated for its plainest case: every record handed
\* to the aggregation is dated inside the range, as the fetch filter asks,
\* and the browser is east of UTC, so that no date shifts when it is parsed.
\* Then the aggregation returns and the amounts of the data points add up
\* to the sum of totalAmount over the records.
C1_SumConservation ==
    ( /\ aggregated.called
      /\ tz >= 0
      /\ \A i \in 1..Len(purchases) : InsideRange(purchases[i].purchaseDate, range) )
    => /\ ~aggregated.threw
       /\ sumAmounts(aggregated.points, 1) = sumInsideRange(purchases, range, 1)

\* the number of calendar days, ISO weeks (Monday to Sunday) or calendar
\* months that overlap [r.start, r.end]
calendarUnits(p, r) ==
    CASE p = "daily"   -> r.end - r.start + 1
      [] p = "weekly"  -> (startOfWeek(r.end, 1) - startOfWeek(r.start, 1)) \div 7 + 1
      [] p = "monthly" -> monthsSpanned(r.start, r.end)

\* C2 (bucket coverage): the aggregation returns one data point per calendar
\* unit of the period (day, ISO week, month) overlapping the range.
C2_BucketCoverage ==
    (aggregated.called /\ ~aggregated.threw)
    => Len(aggregated.points) = calendarUnits(period, range)

unitStart(p, day) ==
    CASE p = "daily"   -> day
      [] p = "weekly"  -> day - ((getDay(day) + 6) % 7)
      [] p = "monthly" -> daysFromCivil(civilFromDays(day).y, civilFromDays(day).m, 1)

\* the start of the period unit after the one that starts on `day`
nextUnitStart(p, day) ==
    CASE p = "daily"   -> day + 1
      [] p = "weekly"  -> day + 7
      [] p = "monthly" -> unitStart("monthly", day + 31)

\* C19: the data points are strictly increasing by date without gaps
\* (consecutive points are one period unit apart), every point's date is the
\* normalized start of its unit (the day, the Monday of the ISO week, the
\* first of the month), and a record dated inside the range is added to the
\* point whose date is the start of the record's own unit.
C19_NormalizedBuckets ==
    (aggregated.called /\ ~aggregated.threw) =>
        /\ \A i \in 1..Len(aggregated.points) :
              aggregated.points[i].date = unitStart(period, aggregated.points[i].date)
        /\ \A i \in 1..(Len(aggregated.points) - 1) :
              aggregated.points[i + 1].date = nextUnitStart(period, aggregated.points[i].date)
        /\ (/\ tz >= 0
            /\ Len(purchases) = 1
            /\ InsideRange(purchases[1].purchaseDate, range)) =>
              \E i \in 1..Len(aggregated.points) :
                 /\ aggregated.points[i].date = unitStart(period, purchases[1].purchaseDate.day)
                 /\ aggregated.points[i].amount = purchases[1].totalAmount

\* the records whose purchaseDate is a date
datedRecords(list) == SelectSeq(list, LAMBDA x : x.purchaseDate.kind = "date")

\* C20: a record whose purchaseDate is null or unparseable is skipped: the
\* aggregation does not throw, and its data points are those of the other
\* records alone, among which one whose date falls outside every bucket
\* adds nothing.
C20_BadDatesSkipped ==
    aggregated.called =>
        /\ ~aggregated.threw
        /\ aggregated.points =
              aggregatePurchases(datedRecords(purchases),
                                 createDateBuckets(period, range), period, tz).points

-----------------------------------------------------------------------------
(* The chart's axis: tickConfig is a computed value of props.range and of   *)
(* chartData.  The data on display are those of the last invocation of     *)
(* fetchChartData to return, which may have been started for another       *)
(* period or range, or are empty.                                          *)

MaxSlack == 1

\* range lengths in days: around the resolution thresholds and the lengths
\* of a calendar month
TickLengths ==
    {n \in 1..(400 + MaxSlack) :
        \E t \in {1, 8, 29, 30, 40, 400} : n - t \in (0 - MaxSlack)..MaxSlack}

\* 2024-02-01, 2024-03-01 and a mid-month day, 2024-03-17
TickStarts ==
    {daysFromCivil(2024, 2, 1), daysFromCivil(2024, 3, 1), daysFromCivil(2024, 3, 17)}

TickRanges == {[start |-> s, end |-> s + n - 1] : s \in TickStarts, n \in TickLengths}

\* what fetchChartData publishes for period p and range r with no purchases
zeroFilled(p, r) == aggregatePurchases(<<>>, createDateBuckets(p, r), p, tz).points

InitTick ==
    /\ tz \in TZOffsets
    /\ period \in Periods
    /\ range \in TickRanges
    /\ purchases = <<>>
    /\ aggregated = NoAggregation
    /\ chartData \in {<<>>} \cup {zeroFilled(p, r) : p \in Periods, r \in TickRanges}
    /\ total = 0
    /\ isLoading = FALSE
    /\ error = NoError
    /\ calls = <<>>
    /\ lastDone = NoneDone
    /\ tickPlan = NoPlan
    /\ picker = NoPicker
    /\ auth = idleAuth

\* the template reads tickConfig
ComputeTicks ==
    /\ ~tickPlan.computed
    /\ tickPlan' = tickConfig(range, chartData)
    /\ UNCHANGED <<envVars, aggVars, fetchVars, picker, auth>>

NextTick == ComputeTicks

SpecTick == InitTick /\ [][NextTick]_vars

-----------------------------------------------------------------------------
(* Claims about the tick plan                                               *)

daysInRange == range.end - range.start + 1

\* C6: once tickConfig is evaluated, its resolution depends only on the number
\* of calendar days from range.start to range.end inclusive: up to 8 gives day,
\* 9..40 week, 41..400 month, 401 and more year, whatever the aggregation
\* period and the fetched data are.
C6_ResolutionThresholds ==
    tickPlan.computed =>
        /\ daysInRange <= 8 => tickPlan.resolution = "day"
        /\ daysInRange \in 9..40 => tickPlan.resolution = "week"
        /\ daysInRange \in 41..400 => tickPlan.resolution = "month"
        /\ daysInRange >= 401 => tickPlan.resolution = "year"

\* a 401-day range over daily data of another range is planned by year
C6_Witness ==
    /\ tickPlan.computed
    /\ daysInRange = 401
    /\ tickPlan.resolution = "year"
    /\ period = "daily"
    /\ chartData # <<>>
    /\ chartData # zeroFilled(period, range)

plannedTicks == {tickPlan.ticks[k] : k \in 1..Len(tickPlan.ticks)}

\* C7: once tickConfig is evaluated, for any range and any data (also data of
\* another range), every index in ticks and in majorTickIndices is a position
\* of the data, 0..length-1, and every labelled index is a tick.
C7_TickIndexValidity ==
    tickPlan.computed =>
        /\ plannedTicks \subseteq 0..(Len(chartData) - 1)
        /\ tickPlan.majorTickIndices \subseteq 0..(Len(chartData) - 1)
        /\ tickPlan.majorTickIndices \subseteq plannedTicks

\* the sparse fallback has added ticks to data that belong to another range
C7_Witness ==
    /\ tickPlan.computed
    /\ Len(chartData) > 2
    /\ ~isFullMonthRange(range)
    /\ chartData # zeroFilled(period, range)
    /\ Cardinality(mappedTicks(generateTickConfig(range), chartData).uniqueTicks) <= 2
    /\ Cardinality(plannedTicks) > 2
    /\ Len(chartData) - 1 \in plannedTicks

\* the range is the first through the last day of one calendar month
oneCalendarMonth ==
    LET s == civilFromDays(range.start)
        n == civilFromDays(range.end + 1)
    IN  /\ s.d = 1
        /\ n.d = 1
        /\ n.y * 12 + n.m = s.y * 12 + s.m + 1

\* C8: when the range is one whole calendar month and the chart holds the
\* daily data of that range, every data index is a gridline and the labelled
\* indices are exactly index 0, the days of the month divisible by 5, and the
\* last index.
C8_FullMonth ==
    (/\ tickPlan.computed
     /\ oneCalendarMonth
     /\ chartData = zeroFilled("daily", range))
    => /\ tickPlan.ticks = [k \in 1..daysInRange |-> k - 1]
       /\ tickPlan.majorTickIndices =
             {i \in 0..(daysInRange - 1) :
                 i = 0 \/ (i + 1) % 5 = 0 \/ i = daysInRange - 1}

\* March 2024: 31 gridlines, labels on days 1, 5, 10, 15, 20, 25, 30 and 31
C8_Witness ==
    /\ tickPlan.computed
    /\ range = [start |-> daysFromCivil(2024, 3, 1), end |-> daysFromCivil(2024, 3, 31)]
    /\ chartData = zeroFilled("daily", range)
    /\ Len(tickPlan.ticks) = 31
    /\ tickPlan.majorTickIndices = {0, 4, 9, 14, 19, 24, 29, 30}

\* the labels after the candidate mapping and the full-month override,
\* before the sparse fallback
labelsBeforeFallback ==
    IF Len(chartData) >= 2 /\ isFullMonthRange(range)
    THEN DOMAIN fullMonthTicks(chartData).labels
    ELSE DOMAIN mappedTicks(generateTickConfig(range), chartData).labels

\* C14: whenever the data have more than 2 points and the candidate mapping,
\* full-month override included, gives at most 2 labels, the sparse fallback
\* is applied and the final plan has at least 3 labelled ticks.
C14_AtLeastThreeLabels ==
    (/\ tickPlan.computed
     /\ Len(chartData) > 2
     /\ Cardinality(labelsBeforeFallback) <= 2)
    => Cardinality(tickPlan.majorTickIndices) >= 3

\* the sparse fallback applies to the data on display
fallbackApplies ==
    /\ Len(chartData) > 2
    /\ ~isFullMonthRange(range)
    /\ Cardinality(mappedTicks(generateTickConfig(range), chartData).uniqueTicks) <= 2

\* clamp(round(L / 10) + 2, 3, 7)
clampedCount(L) ==
    LET raw == (L + 5) \div 10 + 2
    IN  IF raw < 3 THEN 3 ELSE IF raw > 7 THEN 7 ELSE raw

\* round(i * (L - 1) / (count - 1)), halves rounded up
spreadPosition(i, L, count) == (2 * i * (L - 1) + (count - 1)) \div (2 * (count - 1))

\* the count and the positions the code computes, for every data length from
\* 3 up to the longest on display
spreadForEveryLength ==
    \A L \in 3..(400 + MaxSlack) :
        LET count == clampedCount(L)
        IN  /\ fallbackCount(L) = count
            /\ \A i \in 0..(count - 1) :
                  fallbackIndex(i, L, count) = spreadPosition(i, L, count)
            /\ \A i \in 0..(count - 2) :
                  spreadPosition(i, L, count) < spreadPosition(i + 1, L, count)
            /\ spreadPosition(0, L, count) = 0
            /\ spreadPosition(count - 1, L, count) = L - 1

\* C15: when the sparse fallback applies to data of length L > 2, the
\* synthesized positions are round(i * (L - 1) / (count - 1)) for 0 <= i < count
\* with count = clamp(round(L / 10) + 2, 3, 7); they are strictly increasing
\* (so pairwise distinct), start at index 0, end at index L - 1, and are the
\* ticks of the plan together with the at most 2 ticks found before.
C15_FallbackPositions ==
    (tickPlan.computed /\ fallbackApplies) =>
        LET L == Len(chartData)
            count == clampedCount(L)
        IN  /\ spreadForEveryLength
            /\ plannedTicks =
                  mappedTicks(generateTickConfig(range), chartData).uniqueTicks
                  \cup {spreadPosition(i, L, count) : i \in 0..(count - 1)}

\* the fallback has spread 7 ticks over more than 400 points
C15_Witness ==
    /\ tickPlan.computed
    /\ fallbackApplies
    /\ Len(chartData) > 400
    /\ {0, Len(chartData) - 1} \subseteq plannedTicks
    /\ Cardinality(plannedTicks) = 7

\* the candidate tick dates of the range, as a set
candidateDates ==
    {generateTickConfig(range).dates[k] : k \in 1..Len(generateTickConfig(range).dates)}

\* the candidate tick dates are strictly increasing
candidatesIncrease ==
    \A k \in 1..(Len(generateTickConfig(range).dates) - 1) :
        generateTickConfig(range).dates[k] < generateTickConfig(range).dates[k + 1]

\* C16: at week resolution (9..40 days) the candidate tick dates are start,
\* start + 7, start + 14, ... up to end, plus end itself when it is not one of
\* them; they are strictly increasing, inside [start, end], and the last one
\* is end, so with the daily data of the range the last data index is a
\* labelled tick.
C16_WeeklyCandidates ==
    (tickPlan.computed /\ daysInRange \in 9..40) =>
        /\ tickPlan.resolution = "week"
        /\ candidateDates =
              {range.start + 7 * j : j \in 0..((range.end - range.start) \div 7)}
              \cup {range.end}
        /\ candidatesIncrease
        /\ \A d \in candidateDates : range.start <= d /\ d <= range.end
        /\ generateTickConfig(range).dates[Len(generateTickConfig(range).dates)] = range.end
        /\ chartData = zeroFilled("daily", range)
              => Len(chartData) - 1 \in tickPlan.majorTickIndices

\* a 9-day range with its daily data: candidates start, start + 7 and end,
\* outside the full-month case, and the last index carries a label
C16_Witness ==
    /\ tickPlan.computed
    /\ daysInRange = 9
    /\ ~isFullMonthRange(range)
    /\ chartData = zeroFilled("daily", range)
    /\ Len(generateTickConfig(range).dates) = 3
    /\ tickPlan.majorTickIndices = {0, 7, 8}

\* the first days of the calendar months that overlap the range
monthStartsOverlapping ==
    {d \in (range.start - 31)..range.end :
        getDate(d) = 1 /\ endOfMonth(d) >= range.start}

\* the January 1sts of the calendar years that overlap the range
yearStartsOverlapping ==
    {d \in (range.start - 366)..range.end :
        /\ civilFromDays(d).m = 1
        /\ civilFromDays(d).d = 1
        /\ daysFromCivil(civilFromDays(d).y, 12, 31) >= range.start}

\* C17: at month resolution the candidate tick dates are exactly the first
\* days of the calendar months overlapping the range; at year resolution they
\* are exactly the January 1sts of the calendar years overlapping it, from the
\* year of range.start on, one per year; none lies after range.end.
C17_MonthYearCandidates ==
    /\ (tickPlan.computed /\ tickPlan.resolution = "month") =>
          /\ candidateDates = monthStartsOverlapping
          /\ Len(generateTickConfig(range).dates) = Cardinality(monthStartsOverlapping)
          /\ candidatesIncrease
          /\ \A d \in candidateDates : d <= range.end
    /\ (tickPlan.computed /\ tickPlan.resolution = "year") =>
          /\ candidateDates = yearStartsOverlapping
          /\ Len(generateTickConfig(range).dates) = Cardinality(yearStartsOverlapping)
          /\ candidatesIncrease
          /\ civilFromDays(generateTickConfig(range).dates[1]).y
                = civilFromDays(range.start).y
          /\ \A d \in candidateDates : d <= range.end

\* a range of 401 days from 2024-03-17: the candidates are 2024-01-01 and
\* 2025-01-01, the first of them before range.start
C17_Witness ==
    /\ tickPlan.computed
    /\ tickPlan.resolution = "year"
    /\ range.start = daysFromCivil(2024, 3, 17)
    /\ generateTickConfig(range).dates
         = <<daysFromCivil(2024, 1, 1), daysFromCivil(2025, 1, 1)>>

\* the days of the candidate tick dates of the range
candidateDays(r) ==
    LET dates == generateTickConfig(r).dates
    IN  {normalizeDateKey(dates[k]) : k \in 1..Len(dates)}

\* the positions of the data whose day is the day of a candidate tick date
matchedIn(r, data) ==
    LET days == candidateDays(r)
    IN  {i \in 0..(Len(data) - 1) : normalizeDateKey(data[i + 1].date) \in days}

matchedIndices == matchedIn(range, chartData)

\* the positions the sparse fallback spreads over L data points
spreadOver(L) ==
    LET count == clampedCount(L)
    IN  {spreadPosition(i, L, count) : i \in 0..(count - 1)}

spreadPositions == spreadOver(Len(chartData))

\* C21: once tickConfig is evaluated, every labelled index i is a position of
\* the data and its label is the text of the day of dataPoints[i].date (in the
\* format of one of the resolutions); a candidate tick date with no data
\* point on its day gives no tick and no label: outside the full-month
\* override every tick that the sparse fallback did not place is a data
\* point on the day of a candidate, and without the fallback the ticks are
\* exactly those data points.
C21_TickAlignment ==
    tickPlan.computed =>
        LET matched == matchedIndices
            sparse  == Len(chartData) > 2 /\ Cardinality(matched) <= 2
        IN  /\ \A i \in tickPlan.majorTickIndices :
                  /\ i \in 0..(Len(chartData) - 1)
                  /\ \E res \in TickResolutions :
                        tickPlan.labels[i] = formatTickLabel(chartData[i + 1].date, res)
            /\ ~(Len(chartData) >= 2 /\ isFullMonthRange(range)) =>
                  /\ sparse => plannedTicks \ spreadPositions \subseteq matched
                  /\ ~sparse =>
                        /\ plannedTicks = matched
                        /\ tickPlan.majorTickIndices = matched

\* a range planned by week over the daily data of a shorter range: some
\* candidates fall on a data point and are labelled ticks, the later ones
\* fall on none and give nothing
C21_Witness ==
    /\ tickPlan.computed
    /\ tickPlan.resolution = "week"
    /\ ~isFullMonthRange(range)
    /\ Cardinality(plannedTicks) >= 3
    /\ Cardinality(plannedTicks) < Cardinality(candidateDates)
    /\ tickPlan.majorTickIndices = matchedIndices

\* the full-month override applies to the data on display
fullMonthCase == Len(chartData) >= 2 /\ isFullMonthRange(range)

\* C23: once tickConfig is evaluated, ticks is strictly ascending (so without
\* a duplicate).  Under the full-month override the ticks are all the positions
\* of the data and the labelled ones are among them; in every other case the
\* ticks are exactly the labelled indices, so only the override gives a
\* gridline without a label.
C23_TicksAndLabels ==
    tickPlan.computed =>
        /\ \A k \in 1..(Len(tickPlan.ticks) - 1) : tickPlan.ticks[k] < tickPlan.ticks[k + 1]
        /\ fullMonthCase =>
              /\ plannedTicks = 0..(Len(chartData) - 1)
              /\ tickPlan.majorTickIndices \subseteq plannedTicks
        /\ ~fullMonthCase => plannedTicks = tickPlan.majorTickIndices

\* the sparse fallback has added ticks to one mapped tick that is not one of
\* its own positions, and every tick carries a label
C23_Witness ==
    /\ tickPlan.computed
    /\ ~fullMonthCase
    /\ Len(chartData) > 2
    /\ Cardinality(matchedIndices) \in 1..2
    /\ matchedIndices \cap spreadPositions = {}
    /\ Cardinality(plannedTicks) > Cardinality(spreadPositions)
    /\ plannedTicks = tickPlan.majorTickIndices

\* the text parts of a label of the day `date`: day of month and short month
dayAndMonth(date) ==
    [d |-> civilFromDays(date).d, MMM |-> civilFromDays(date).m, yyyy |-> 0]

\* the short month alone
monthOnly(date) == [d |-> 0, MMM |-> civilFromDays(date).m, yyyy |-> 0]

\* short month and year
monthAndYear(date) ==
    [d |-> 0, MMM |-> civilFromDays(date).m, yyyy |-> civilFromDays(date).y]

\* C24: the text of a label depends on the resolution alone: day and week
\* give day of month and short month, month gives the short month only, year
\* gives short month and 4-digit year.  In an evaluated plan every label,
\* those the sparse fallback adds included, has the format of the plan's
\* resolution, with the day format for week (and for the full-month override).
C24_LabelFormats ==
    /\ \A date \in {daysFromCivil(2024, 2, 29), daysFromCivil(2025, 12, 5)} :
          /\ formatTickLabel(date, "day") = dayAndMonth(date)
          /\ formatTickLabel(date, "week") = dayAndMonth(date)
          /\ formatTickLabel(date, "month") = monthOnly(date)
          /\ formatTickLabel(date, "year") = monthAndYear(date)
    /\ tickPlan.computed =>
          \A i \in tickPlan.majorTickIndices :
             tickPlan.labels[i] =
                IF fullMonthCase \/ tickPlan.resolution \in {"day", "week"}
                THEN dayAndMonth(chartData[i + 1].date)
                ELSE IF tickPlan.resolution = "month"
                     THEN monthOnly(chartData[i + 1].date)
                     ELSE monthAndYear(chartData[i + 1].date)

\* the sparse fallback at week resolution has labelled positions of the data
\* that no candidate date falls on, in the day format
C24_Witness ==
    /\ tickPlan.computed
    /\ tickPlan.resolution = "week"
    /\ ~fullMonthCase
    /\ Len(chartData) > 2
    /\ Cardinality(matchedIndices) <= 2
    /\ \E i \in tickPlan.majorTickIndices \ matchedIndices :
          /\ tickPlan.labels[i] = dayAndMonth(chartData[i + 1].date)
          /\ tickPlan.labels[i].d > 0

\* the sparse fallback fires: more than 2 data points, no full-month
\* override, at most 2 candidate dates on a data point
fallbackFires ==
    /\ Len(chartData) > 2
    /\ ~fullMonthCase
    /\ Cardinality(matchedIndices) <= 2

\* C28 as claimed: when the sparse fallback fires the final plan has between
\* 3 and 7 labelled ticks, the synthesized positions and no others.
C28_ThreeToSevenLabels ==
    (tickPlan.computed /\ fallbackFires) =>
        /\ Cardinality(tickPlan.majorTickIndices) \in 3..7
        /\ tickPlan.majorTickIndices = spreadPositions

\* C28 as amended: when the sparse fallback fires the labelled ticks are the
\* 3 to 7 synthesized positions together with the at most 2 ticks found
\* before, which keep their labels: between 3 and 9 labelled ticks, and more
\* than 7 only when a tick found before is not a synthesized position.
C28_ThreeToNineLabels ==
    (tickPlan.computed /\ fallbackFires) =>
        /\ Cardinality(spreadPositions) \in 3..7
        /\ tickPlan.majorTickIndices = spreadPositions \cup matchedIndices
        /\ Cardinality(tickPlan.majorTickIndices) \in 3..9
        /\ Cardinality(tickPlan.majorTickIndices) =
              Cardinality(spreadPositions) + Cardinality(matchedIndices \ spreadPositions)

\* 401 days of daily data planned by year: 7 synthesized positions and the
\* tick of January 1st between two of them, 8 labels in all
C28_Witness ==
    /\ tickPlan.computed
    /\ fallbackFires
    /\ tickPlan.resolution = "year"
    /\ chartData = zeroFilled("daily", range)
    /\ Cardinality(spreadPositions) = 7
    /\ Cardinality(tickPlan.majorTickIndices) = 8

-----------------------------------------------------------------------------
(* The preset buttons in use: a click runs selectPreset; the 'all' preset  *)
(* waits for GET /purchases/date-range before it emits update:range.       *)

MaxSelections == 2     \* clicks on preset buttons in one behaviour

\* new Date(): Wed 2023-02-15, Sun 2023-12-31, Mon 2024-01-01, Thu 2024-02-29,
\* Sun 2024-03-17, Sun 2024-03-31
Todays ==
    {daysFromCivil(2023, 2, 15), daysFromCivil(2023, 12, 31), daysFromCivil(2024, 1, 1),
     daysFromCivil(2024, 2, 29), daysFromCivil(2024, 3, 17), daysFromCivil(2024, 3, 31)}

\* earliestDate / latestDate of the reply: null, 2022-11-05 or 2024-03-17
ReplyDates ==
    {NullDate, dateString(daysFromCivil(2022, 11, 5)), dateString(daysFromCivil(2024, 3, 17))}

DateRangeReplies ==
    {dateRangeReply(TRUE, FALSE, NullDate, NullDate),
     dateRangeReply(FALSE, FALSE, NullDate, NullDate)}
    \cup {dateRangeReply(FALSE, TRUE, e, l) : e \in ReplyDates, l \in ReplyDates}

InitPreset ==
    /\ tz \in TZOffsets
    /\ period \in Periods
    /\ range \in FetchRanges
    /\ purchases = <<>>
    /\ aggregated = NoAggregation
    /\ idleFetch
    /\ tickPlan = NoPlan
    /\ picker \in {idlePicker(now) : now \in Todays}
    /\ auth = idleAuth

\* the buttons are disabled while isLoading or isLoadingAllTime
buttonsEnabled == ~isLoading /\ ~picker.isLoadingAllTime

\* a click on a preset that computes its range at once: selectPreset runs
\* to its end
SelectPreset(key) ==
    /\ buttonsEnabled
    /\ Len(picker.emitted) < MaxSelections
    /\ picker' = [picker EXCEPT !.activePreset = key,
                                !.emitted = Append(@, presetRange(key, picker.today))]
    /\ UNCHANGED <<envVars, aggVars, fetchVars, tickPlan, auth>>

\* a click on 'All': selectPreset runs up to the await in getRange
SelectAll ==
    /\ buttonsEnabled
    /\ Len(picker.emitted) < MaxSelections
    /\ picker' = [picker EXCEPT !.activePreset = "all",
                                !.isLoadingAllTime = TRUE,
                                !.lookup = "pending"]
    /\ UNCHANGED <<envVars, aggVars, fetchVars, tickPlan, auth>>

\* the date-range request settles: getRange runs its finally block and
\* returns, and selectPreset emits (or the exception leaves selectPreset)
DateRangeSettles(reply) ==
    /\ picker.lookup = "pending"
    /\ LET res == allTimeRange(reply, picker.today, tz)
       IN  picker' = [picker EXCEPT
                        !.isLoadingAllTime = FALSE,
                        !.lookup = "none",
                        !.lastReply = <<reply>>,
                        !.escaped = res.threw,
                        !.emitted = IF res.threw THEN @ ELSE Append(@, res.range)]
    /\ UNCHANGED <<envVars, aggVars, fetchVars, tickPlan, auth>>

NextPreset ==
    \/ \E key \in PresetKeys \ {"all"} : SelectPreset(key)
    \/ SelectAll
    \/ \E reply \in DateRangeReplies : DateRangeSettles(reply)

SpecPreset == InitPreset /\ [][NextPreset]_vars

-----------------------------------------------------------------------------
(* Claims about the presets                                                 *)

\* the calendar year of the current date, Jan 1 to Dec 31
currentYear ==
    LET y == civilFromDays(picker.today).y
    IN  [start |-> daysFromCivil(y, 1, 1), end |-> daysFromCivil(y, 12, 31)]

\* the reply gives no usable pair of dates
noDates(reply) ==
    \/ reply.rejected
    \/ ~reply.hasData
    \/ reply.earliestDate = NullDate
    \/ reply.latestDate = NullDate

\* C12: selecting 'All' always ends by emitting one range and never lets an
\* error out of selectPreset.  When the date-range request fails or gives a
\* null earliestDate or latestDate the range is the current calendar year,
\* otherwise it is the Dates new Date(earliestDate), new Date(latestDate);
\* once the lookup has settled isLoadingAllTime is false.
C12_AllPreset ==
    /\ [](~picker.escaped)
    /\ [](picker.lookup = "none" => ~picker.isLoadingAllTime)
    /\ [][(picker.lookup = "pending" /\ picker'.lookup = "none") =>
             LET reply == picker'.lastReply[1]
             IN  /\ ~picker'.isLoadingAllTime
                 /\ picker'.emitted =
                      Append(picker.emitted,
                             IF noDates(reply) THEN currentYear
                             ELSE [start |-> parseDate(reply.earliestDate, tz).day,
                                   end   |-> parseDate(reply.latestDate, tz).day])]_vars

\* 'All' was selected second, its request was rejected, and the current
\* year has been emitted
C12_Witness ==
    /\ picker.activePreset = "all"
    /\ picker.lookup = "none"
    /\ picker.lastReply = <<dateRangeReply(TRUE, FALSE, NullDate, NullDate)>>
    /\ Len(picker.emitted) = 2
    /\ picker.emitted[2] = currentYear
    /\ ~picker.isLoadingAllTime

\* r runs from the 1st through the last day of one and the same month
wholeMonth(r) ==
    LET s == civilFromDays(r.start)
        n == civilFromDays(r.end + 1)
    IN  /\ s.d = 1
        /\ n.d = 1
        /\ n.y * 12 + n.m = s.y * 12 + s.m + 1

\* ranges of 1 to 95 days that start on, before or after a 1st of a month
MonthProbes ==
    {[start |-> s, end |-> s + n - 1] :
        s \in {daysFromCivil(2023, 2, 1), daysFromCivil(2023, 12, 1),
                daysFromCivil(2024, 1, 31), daysFromCivil(2024, 2, 1),
                daysFromCivil(2024, 2, 2)},
        n \in 1..95}

\* the full-month layout over the daily data of r: every index a gridline,
\* labels on the first, the last and the days divisible by 5
fullMonthLayout(r, zone) ==
    LET data == aggregatePurchases(<<>>, createDateBuckets("daily", r), "daily", zone).points
        plan == tickConfig(r, data)
        n    == r.end - r.start + 1
    IN  /\ Len(data) = n
        /\ plan.ticks = [k \in 1..n |-> k - 1]
        /\ plan.majorTickIndices =
              {i \in 0..(n - 1) : i = 0 \/ (i + 1) % 5 = 0 \/ i = n - 1}

\* for every current date of 2023 and 2024 the 'Month' preset gives a range
\* isFullMonthRange accepts, and isFullMonthRange accepts whole months only
monthPresetForEveryDay ==
    /\ \A now \in daysFromCivil(2023, 1, 1)..daysFromCivil(2024, 12, 31) :
          /\ isFullMonthRange(presetRange("1m", now))
          /\ wholeMonth(presetRange("1m", now))
          /\ presetRange("1m", now).start <= now
          /\ now <= presetRange("1m", now).end
    /\ \A r \in MonthProbes : isFullMonthRange(r) <=> wholeMonth(r)

\* C30: whatever the current date, the range the 'Month' preset emits is the
\* current month from its 1st to its last day and satisfies isFullMonthRange,
\* so with the daily data of that range tickConfig gives the full-month
\* layout; and isFullMonthRange holds of a range only when it runs from the
\* 1st to the last day of one month (not of the ranges of the other presets
\* or of the 'all' lookup unless they are such a month).
C30_MonthPreset ==
    /\ [](monthPresetForEveryDay)
    /\ [](\A k \in 1..Len(picker.emitted) :
            isFullMonthRange(picker.emitted[k]) <=> wholeMonth(picker.emitted[k]))
    /\ [][(picker'.activePreset = "1m" /\ Len(picker'.emitted) > Len(picker.emitted)) =>
             LET r == picker'.emitted[Len(picker'.emitted)]
             IN  /\ r = [start |-> startOfMonth(picker.today),
                         end |-> endOfMonth(picker.today)]
                 /\ isFullMonthRange(r)
                 /\ fullMonthLayout(r, tz)]_vars

\* on Thu 2024-02-29 '3 Months' and then 'Month' were selected: the second
\* range is February 2024, the first one is no full month
C30_Witness ==
    /\ picker.today = daysFromCivil(2024, 2, 29)
    /\ picker.activePreset = "1m"
    /\ Len(picker.emitted) = 2
    /\ ~isFullMonthRange(picker.emitted[1])
    /\ picker.emitted[1].end = picker.emitted[2].end
    /\ picker.emitted[2] =
         [start |-> daysFromCivil(2024, 2, 1), end |-> daysFromCivil(2024, 2, 29)]
    /\ isFullMonthRange(picker.emitted[2])

-----------------------------------------------------------------------------
(* The interceptor at work: requests of the application are rejected, and   *)
(* logout() calls, started by the interceptor or by the user, settle.       *)

MaxErrorResponses == 4     \* rejected responses in one behaviour

\* 0 stands for a rejection without a response (network error)
Statuses == {0, 401, 403, 419, 500}

LogoutUrl == urlOf(<<"api", "logout">>)

\* responseURL of a rejected request other than POST /logout
RequestUrls ==
    {NoUrl, urlOf(<<"api", "purchases">>), urlOf(<<"api", "user">>),
     urlOf(<<"api", "user", "settings">>), urlOf(<<"user">>)}

InitAuth ==
    /\ tz \in TZOffsets
    /\ period \in Periods
    /\ range \in FetchRanges
    /\ purchases = <<>>
    /\ aggregated = NoAggregation
    /\ idleFetch
    /\ tickPlan = NoPlan
    /\ picker = NoPicker
    /\ auth = idleAuth

\* a request other than the logout is rejected
ErrorResponse(status, url) ==
    /\ auth.seen < MaxErrorResponses
    /\ auth' = handleError(auth, status, url)
    /\ UNCHANGED <<envVars, aggVars, fetchVars, tickPlan, picker>>

\* the logout() the interceptor started resolves: `.finally` clears the guard
InterceptorLogoutDone ==
    /\ auth.inFlight > 0
    /\ auth' = [auth EXCEPT !.isLoggingOut = FALSE, !.inFlight = @ - 1]
    /\ UNCHANGED <<envVars, aggVars, fetchVars, tickPlan, picker>>

\* its POST /logout is rejected: the interceptor sees that response, logout()
\* rethrows and `.finally` clears the guard
InterceptorLogoutFails(status) ==
    /\ auth.inFlight > 0
    /\ auth.seen < MaxErrorResponses
    /\ auth' = [handleError(auth, status, LogoutUrl) EXCEPT
                   !.isLoggingOut = FALSE, !.inFlight = @ - 1]
    /\ UNCHANGED <<envVars, aggVars, fetchVars, tickPlan, picker>>

\* the user logs out from the menu
UserLogout ==
    /\ auth.userLogouts = 0
    /\ auth' = [auth EXCEPT !.userLogouts = 1]
    /\ UNCHANGED <<envVars, aggVars, fetchVars, tickPlan, picker>>

UserLogoutDone ==
    /\ auth.userLogouts > 0
    /\ auth' = [auth EXCEPT !.userLogouts = @ - 1]
    /\ UNCHANGED <<envVars, aggVars, fetchVars, tickPlan, picker>>

UserLogoutFails(status) ==
    /\ auth.userLogouts > 0
    /\ auth.seen < MaxErrorResponses
    /\ auth' = [handleError(auth, status, LogoutUrl) EXCEPT !.userLogouts = @ - 1]
    /\ UNCHANGED <<envVars, aggVars, fetchVars, tickPlan, picker>>

NextAuth ==
    \/ \E status \in Statuses, url \in RequestUrls : ErrorResponse(status, url)
    \/ InterceptorLogoutDone
    \/ \E status \in Statuses : InterceptorLogoutFails(status)
    \/ UserLogout
    \/ UserLogoutDone
    \/ \E status \in Statuses : UserLogoutFails(status)

SpecAuth == InitAuth /\ [][NextAuth]_vars

-----------------------------------------------------------------------------
(* Claims about the interceptor                                             *)

\* the response seen last is a 401 or 419 from a URL that ends neither in
\* /api/user nor in /api/logout
authErrorSeen(a) ==
    /\ a.lastError.status \in {401, 419}
    /\ ~(a.lastError.url.defined /\ Len(a.lastError.url.path) >= 2
           /\ SubSeq(a.lastError.url.path, Len(a.lastError.url.path) - 1,
                     Len(a.lastError.url.path))
                 \in {<<"api", "user">>, <<"api", "logout">>})

\* C13: a rejected response starts a logout exactly when it is a 401 or 419
\* from a URL not ending in /api/user or /api/logout and no logout started by
\* the interceptor is still unsettled; so at most one such logout is in
\* flight, the guard is set exactly while it is, and when it settles, by
\* success or by failure, the guard is cleared.
C13_SingleLogout ==
    /\ [](auth.inFlight <= 1)
    /\ [](auth.isLoggingOut <=> auth.inFlight = 1)
    /\ [][ /\ auth'.seen = auth.seen + 1 =>
                 (auth'.started = auth.started + 1
                    <=> (authErrorSeen(auth') /\ auth.inFlight = 0))
           /\ auth'.seen = auth.seen => auth'.started = auth.started
           /\ auth'.inFlight < auth.inFlight => ~auth'.isLoggingOut
         ]_vars

\* a second logout was started after the first one settled, and a further
\* 401 that arrived while one was in flight started none
C13_Witness ==
    /\ auth.started = 2
    /\ auth.suppressed >= 1
    /\ auth.inFlight = 1
    /\ auth.lastError = [status |-> 401, url |-> urlOf(<<"api", "purchases">>)]

====
